---- MODULE Spec2Model ----
(***************************************************************************)
(* Model of the surf session planner of corelord-backend:                  *)
(* routes/sessions.js (scoring functions, local-time mapping, the          *)
(* GET /sessions handler) together with the replies of the endpoints it    *)
(* calls (routes/planner.js, routes/forecast.js).                          *)
(*                                                                         *)
(* JavaScript values are triples <<kind, n, d>>:                           *)
(*   <<"num", n, d>>  the number n/d (d > 0, lowest terms)                 *)
(*   <<"nan", 0, 1>>  NaN                                                  *)
(*   <<"null", 0, 1>> null / undefined                                     *)
(*   <<"str", 0, 1>>  a string that does not convert to a number           *)
(* Arithmetic is exact (rationals); IEEE rounding is not modelled.         *)
(* Time is counted in whole hours since a Sunday 00:00 UTC.                *)
(***************************************************************************)
EXTENDS Integers, Sequences, FiniteSets, TLC

----------------------------------------------------------------------------
(* JavaScript numbers *)

Abs(x) == IF x < 0 THEN -x ELSE x

RECURSIVE GCD(_, _)
GCD(a, b) == IF b = 0 THEN a ELSE GCD(b, a % b)

Num(n, d) ==
  LET g == GCD(Abs(n), d)
  IN  <<"num", IF n < 0 THEN -(Abs(n) \div g) ELSE n \div g, d \div g>>

Whole(n) == <<"num", n, 1>>

NaN == <<"nan", 0, 1>>

Null == <<"null", 0, 1>>

Str == <<"str", 0, 1>>

IsNum(x) == x[1] = "num"

\* x == null
IsNullish(x) == x[1] = "null"

\* typeof x === "number"
TypeofNumber(x) == x[1] \in {"num", "nan"}

\* Number(x), also the implicit conversion of the operand of an arithmetic
\* or relational operator
ToNumber(x) ==
  CASE x[1] = "num" -> x
    [] x[1] = "null" -> Whole(0)
    [] OTHER -> NaN

Add(a, b) ==
  LET x == ToNumber(a)
      y == ToNumber(b)
  IN  IF IsNum(x) /\ IsNum(y) THEN Num(x[2] * y[3] + y[2] * x[3], x[3] * y[3])
      ELSE NaN

Neg(a) ==
  LET x == ToNumber(a)
  IN  IF IsNum(x) THEN <<"num", -x[2], x[3]>> ELSE NaN

Sub(a, b) == Add(a, Neg(b))

Mul(a, b) ==
  LET x == ToNumber(a)
      y == ToNumber(b)
  IN  IF IsNum(x) /\ IsNum(y) THEN Num(x[2] * y[2], x[3] * y[3]) ELSE NaN

\* a / b for a divisor that is not zero (every divisor of sessions.js is
\* guarded by "|| fallback")
Div(a, b) ==
  LET x == ToNumber(a)
      y == ToNumber(b)
  IN  IF IsNum(x) /\ IsNum(y) /\ y[2] # 0
      THEN IF y[2] < 0 THEN Num(-(x[2] * y[3]), x[3] * (-y[2]))
                       ELSE Num(x[2] * y[3], x[3] * y[2])
      ELSE NaN

\* relational operators: false as soon as one side is NaN
Lt(a, b) ==
  LET x == ToNumber(a)
      y == ToNumber(b)
  IN  IsNum(x) /\ IsNum(y) /\ x[2] * y[3] < y[2] * x[3]

Le(a, b) ==
  LET x == ToNumber(a)
      y == ToNumber(b)
  IN  IsNum(x) /\ IsNum(y) /\ x[2] * y[3] <= y[2] * x[3]

Gt(a, b) == Lt(b, a)

Ge(a, b) == Le(b, a)

\* Math.min / Math.max: NaN as soon as one argument is NaN
MathMin(a, b) ==
  LET x == ToNumber(a)
      y == ToNumber(b)
  IN  IF IsNum(x) /\ IsNum(y) THEN (IF Le(x, y) THEN x ELSE y) ELSE NaN

MathMax(a, b) ==
  LET x == ToNumber(a)
      y == ToNumber(b)
  IN  IF IsNum(x) /\ IsNum(y) THEN (IF Ge(x, y) THEN x ELSE y) ELSE NaN

MathAbs(a) ==
  LET x == ToNumber(a)
  IN  IF IsNum(x) THEN <<"num", Abs(x[2]), x[3]>> ELSE NaN

\* x || fallback for a number x: 0 and NaN are falsy
OrElse(x, fallback) == IF IsNum(x) /\ x[2] # 0 THEN x ELSE fallback

\* Math.max(0, Math.min(1, x))
Clamp01(x) == MathMax(Whole(0), MathMin(Whole(1), x))

\* x % m for a positive integer m: the remainder has the sign of x
JsRem(a, m) ==
  LET x == ToNumber(a)
  IN  IF IsNum(x)
      THEN LET q == Abs(x[2]) \div (m * x[3])
               r == Abs(x[2]) - q * m * x[3]
           IN  Num(IF x[2] < 0 THEN -r ELSE r, x[3])
      ELSE NaN

\* Math.round(x): floor(x + 1/2)
MathRound(a) ==
  LET x == ToNumber(a)
  IN  IF IsNum(x) THEN Whole((2 * x[2] + x[3]) \div (2 * x[3])) ELSE NaN

----------------------------------------------------------------------------
(* Scoring functions of routes/sessions.js *)

\* normalize degrees to 0..360
normDeg(d) ==
  LET x == JsRem(ToNumber(d), 360)
  IN  IF Lt(x, Whole(0)) THEN Add(x, Whole(360)) ELSE x

\* sector centers of the 8-way compass; a name outside the table has no center
SECTOR_CENTERS(a) ==
  CASE a = "N"  -> Whole(0)
    [] a = "NE" -> Whole(45)
    [] a = "E"  -> Whole(90)
    [] a = "SE" -> Whole(135)
    [] a = "S"  -> Whole(180)
    [] a = "SW" -> Whole(225)
    [] a = "W"  -> Whole(270)
    [] a = "NW" -> Whole(315)
    [] OTHER    -> Null

\* 0.5 * (1 + Math.cos(Math.PI * t)) at the arguments whose cosine is rational
CosineStep(t) ==
  CASE t = Whole(0)  -> Whole(1)
    [] t = Num(1, 3) -> Num(3, 4)
    [] t = Num(1, 2) -> Num(1, 2)
    [] t = Num(2, 3) -> Num(1, 4)
    [] t = Whole(1)  -> Whole(0)

\* the loop body taking |d - center| as the distance, without 360 - delta
dirContributionNoWrap(d, a, best) ==
  LET center == SECTOR_CENTERS(a)
      delta  == MathAbs(Sub(d, center))
  IN  IF IsNullish(center) THEN best
      ELSE IF Le(delta, Num(45, 2)) THEN MathMax(best, Whole(1))
      ELSE IF Le(delta, Whole(45))
           THEN MathMax(best, CosineStep(Div(Sub(delta, Num(45, 2)), Num(45, 2))))
      ELSE best

\* the body of "for (const a of allowed)" for one sector name
dirContribution(d, a, best) ==
  LET center == SECTOR_CENTERS(a)
      delta0 == MathAbs(Sub(d, center))
      delta  == MathMin(delta0, Sub(Whole(360), delta0))
  IN  IF IsNullish(center) THEN best
      ELSE IF Le(delta, Num(45, 2)) THEN MathMax(best, Whole(1))
      ELSE IF Le(delta, Whole(45))
           THEN MathMax(best, CosineStep(Div(Sub(delta, Num(45, 2)), Num(45, 2))))
      ELSE best

RECURSIVE dirLoop(_, _, _)
dirLoop(d, allowed, best) ==
  IF allowed = <<>> THEN best
  ELSE dirLoop(d, Tail(allowed), dirContribution(d, Head(allowed), best))

\* allowedCsv is the sequence of the comma-separated entries of the stored
\* string, trimmed and upper-cased; <<>> is a null or empty string and ""
\* an entry that is blank
dirScore(deg, allowedCsv) ==
  LET allowed == SelectSeq(allowedCsv, LAMBDA s : s # "")
  IN  IF IsNullish(deg) THEN Num(1, 2)
      ELSE IF allowedCsv = <<>> THEN Whole(1)
      ELSE IF allowed = <<>> THEN Whole(1)
      ELSE dirLoop(normDeg(deg), allowed, Whole(0))

\* bandScore whose two-bound case measures the falloff from the middle of the
\* band
bandScoreFromCentre(val, min, max) ==
  LET hasMin == TypeofNumber(min)
      hasMax == TypeofNumber(max)
      v      == ToNumber(val)
      span   == OrElse(Sub(max, min), Num(1, 10000))
      pad    == Mul(Num(1, 4), span)
      mid    == Div(Add(min, max), Whole(2))
  IN  IF IsNullish(val) THEN Num(1, 2)
      ELSE IF ~hasMin /\ ~hasMax THEN Whole(1)
      ELSE IF hasMin /\ hasMax THEN
             Sub(Whole(1), Clamp01(Div(MathAbs(Sub(v, mid)), pad)))
      ELSE IF hasMin /\ ~hasMax THEN
             IF Ge(v, min) THEN Whole(1)
             ELSE Sub(Whole(1), Clamp01(Div(Sub(min, v), OrElse(min, Whole(1)))))
      ELSE IF Le(v, max) THEN Whole(1)
      ELSE Sub(Whole(1), Clamp01(Div(Sub(v, max), OrElse(max, Whole(1)))))

\* bandScore whose padding is 25% of max instead of 25% of (max - min)
bandScorePadOfMax(val, min, max) ==
  LET hasMin == TypeofNumber(min)
      hasMax == TypeofNumber(max)
      v      == ToNumber(val)
      pad    == Mul(Num(1, 4), OrElse(max, Num(1, 10000)))
  IN  IF IsNullish(val) THEN Num(1, 2)
      ELSE IF ~hasMin /\ ~hasMax THEN Whole(1)
      ELSE IF hasMin /\ hasMax THEN
             IF Ge(v, min) /\ Le(v, max) THEN Whole(1)
             ELSE IF Lt(v, min)
                  THEN Sub(Whole(1), Clamp01(Div(Sub(min, v), pad)))
                  ELSE Sub(Whole(1), Clamp01(Div(Sub(v, max), pad)))
      ELSE IF hasMin /\ ~hasMax THEN
             IF Ge(v, min) THEN Whole(1)
             ELSE Sub(Whole(1), Clamp01(Div(Sub(min, v), OrElse(min, Whole(1)))))
      ELSE IF Le(v, max) THEN Whole(1)
      ELSE Sub(Whole(1), Clamp01(Div(Sub(v, max), OrElse(max, Whole(1)))))

bandScore(val, min, max) ==
  LET hasMin == TypeofNumber(min)
      hasMax == TypeofNumber(max)
      v      == ToNumber(val)
      span   == OrElse(Sub(max, min), Num(1, 10000))
      pad    == Mul(Num(1, 4), span)
  IN  IF IsNullish(val) THEN Num(1, 2)
      ELSE IF ~hasMin /\ ~hasMax THEN Whole(1)
      ELSE IF hasMin /\ hasMax THEN
             IF Ge(v, min) /\ Le(v, max) THEN Whole(1)
             ELSE IF Lt(v, min)
                  THEN Sub(Whole(1), Clamp01(Div(Sub(min, v), pad)))
                  ELSE Sub(Whole(1), Clamp01(Div(Sub(v, max), pad)))
      ELSE IF hasMin /\ ~hasMax THEN
             IF Ge(v, min) THEN Whole(1)
             ELSE Sub(Whole(1), Clamp01(Div(Sub(min, v), OrElse(min, Whole(1)))))
      ELSE IF Le(v, max) THEN Whole(1)
      ELSE Sub(Whole(1), Clamp01(Div(Sub(v, max), OrElse(max, Whole(1)))))

windSpeedScore(kt, maxWind) ==
  LET over == Sub(kt, maxWind)
      fall == OrElse(Mul(maxWind, Num(1, 2)), Whole(1))
  IN  IF IsNullish(kt) THEN Num(1, 2)
      ELSE IF ~TypeofNumber(maxWind) THEN Whole(1)
      ELSE IF Le(kt, maxWind) THEN Whole(1)
      ELSE Sub(Whole(1), Clamp01(Div(over, fall)))

\* tideScore delegating to bandScore whatever the bounds
tideScoreAlwaysBand(tide, minTide, maxTide) == bandScore(tide, minTide, maxTide)

tideScore(tide, minTide, maxTide) ==
  LET hasMin == TypeofNumber(minTide)
      hasMax == TypeofNumber(maxTide)
  IN  IF ~hasMin /\ ~hasMax THEN Num(3, 4) ELSE bandScore(tide, minTide, maxTide)

\* const W = { h: 1.0, p: 0.8, sd: 0.7, wd: 1.0, ws: 1.0, t: 0.5 }
W == [h |-> Whole(1), p |-> Num(4, 5), sd |-> Num(7, 10),
      wd |-> Whole(1), ws |-> Whole(1), t |-> Num(1, 2)]

hourlyScoreSum(subs, weights) ==
  Add(Add(Add(Add(Add(Mul(weights.h, subs.height),
                      Mul(weights.p, subs.period)),
                  Mul(weights.sd, subs.swellDir)),
              Mul(weights.ws, subs.windSpeed)),
          Mul(weights.wd, subs.windDir)),
      Mul(weights.t, subs.tide))

\* hourlyScore returning the weighted sum as it is
hourlyScoreUnclamped(item, prefs, weights) ==
  LET subs == [height    |-> bandScore(item.waveHeightM, prefs.MinHeightM, prefs.MaxHeightM),
               period    |-> bandScore(item.swellPeriodS, prefs.MinPeriodS, prefs.MaxPeriodS),
               swellDir  |-> dirScore(item.swellDir, prefs.AllowedSwellDirs),
               windSpeed |-> windSpeedScore(item.windSpeedKt, prefs.MaxWindKt),
               windDir   |-> dirScore(item.windDir, prefs.AllowedWindDirs),
               tide      |-> tideScore(item.tideM, prefs.MinTideM, prefs.MaxTideM)]
  IN  [score |-> hourlyScoreSum(subs, weights), subs |-> subs]

hourlyScore(item, prefs, weights) ==
  LET subs == [height    |-> bandScore(item.waveHeightM, prefs.MinHeightM, prefs.MaxHeightM),
               period    |-> bandScore(item.swellPeriodS, prefs.MinPeriodS, prefs.MaxPeriodS),
               swellDir  |-> dirScore(item.swellDir, prefs.AllowedSwellDirs),
               windSpeed |-> windSpeedScore(item.windSpeedKt, prefs.MaxWindKt),
               windDir   |-> dirScore(item.windDir, prefs.AllowedWindDirs),
               tide      |-> tideScore(item.tideM, prefs.MinTideM, prefs.MaxTideM)]
  IN  [score |-> Clamp01(hourlyScoreSum(subs, weights)), subs |-> subs]

----------------------------------------------------------------------------
(* Local time *)

\* zone identifiers the Intl time zone database resolves
KnownZones == {"UTC", "Europe/Lisbon"}

\* Europe/Lisbon leaves summer time (UTC+1) for UTC+0 on a Sunday, 01:00 UTC
DstEnd == 169

utcOffset(ts, tz) == IF tz = "Europe/Lisbon" /\ ts < DstEnd THEN 1 ELSE 0

\* the civil (day of week, hour) of an instant in a resolvable zone, Sun = 0
civilDowHour(ts, tz) ==
  LET lh == ts + utcOffset(ts, tz)
  IN  [dow |-> (lh \div 24) % 7, hour |-> lh % 24]

\* new Intl.DateTimeFormat("en-US", {timeZone: tz, ...}) throws a RangeError
\* for a zone it cannot resolve
dowHourInTZThrows(tz) == tz \notin KnownZones

\* "hour12: false" with locale en-US resolves to hour cycle h23 or to h24
\* depending on the ECMA-402 edition the runtime implements; under h24 the
\* hour part of midnight is formatted "24", and parseInt yields 24
dowHourInTZ(ts, tz, hc) ==
  LET c == civilDowHour(ts, tz)
  IN  [dow |-> c.dow, hour |-> IF hc = "h23" \/ c.hour # 0 THEN c.hour ELSE 24]

----------------------------------------------------------------------------
(* The window scan of GET /sessions *)

okNextOf(dow, h0, dow1, h1) ==
  \/ (dow1 = dow /\ h1 = (h0 + 1) % 24)
  \/ (dow1 = (dow + (IF h0 = 23 THEN 1 ELSE 0)) % 7 /\ h1 = (h0 + 1) % 24)

\* the record pushed for start index i
windowAt(items, i, pref, tz, hc) ==
  LET it     == items[i]
      hasNxt == i + 1 <= Len(items)
      itNext == IF hasNxt THEN items[i + 1] ELSE it
      l0     == dowHourInTZ(it.ts, tz, hc)
      l1     == dowHourInTZ(itNext.ts, tz, hc)
      okNext == hasNxt /\ okNextOf(l0.dow, l0.hour, l1.dow, l1.hour)
      s0     == hourlyScore(it, pref, W)
      s1     == hourlyScore(itNext, pref, W)
      sum    == IF okNext THEN Add(s0.score, s1.score) ELSE s0.score
      windowScore == Div(sum, Whole(IF okNext THEN 2 ELSE 1))
      bestHour == IF ~okNext \/ Ge(s0.score, s1.score) THEN it.ts ELSE itNext.ts
  IN  [breakId  |-> pref.BreakId,
       start    |-> it.ts,
       end      |-> IF okNext THEN itNext.ts ELSE it.ts,
       score    |-> MathRound(Mul(windowScore, Whole(100))),
       why      |-> s0.subs,
       bestHour |-> bestHour,
       hourly   |-> <<[ts |-> it.ts, score |-> s0.score]>>
                    \o (IF okNext THEN <<[ts |-> itNext.ts, score |-> s1.score]>>
                        ELSE <<>>)]

\* the scan without "if (!availSet.has(key)) continue"
RECURSIVE scanLoopUngated(_, _, _, _, _, _, _, _)
scanLoopUngated(items, i, pref, avail, tz, cutoff, hc, acc) ==
  IF i > Len(items) THEN acc
  ELSE IF Gt(Whole(items[i].ts), cutoff) THEN [acc EXCEPT !.iters = @ + 1]
  ELSE IF dowHourInTZThrows(tz) THEN [acc EXCEPT !.iters = @ + 1, !.threw = TRUE]
  ELSE scanLoopUngated(items, i + 1, pref, avail, tz, cutoff, hc,
                       [acc EXCEPT !.iters = @ + 1,
                                   !.pushed = Append(@, windowAt(items, i, pref, tz, hc))])

\* for (let i = 0; i < items.length; i++) { ... }: the windows pushed from
\* index i on, the number of iterations entered, and whether dowHourInTZ threw
RECURSIVE scanLoop(_, _, _, _, _, _, _, _)
scanLoop(items, i, pref, avail, tz, cutoff, hc, acc) ==
  IF i > Len(items) THEN acc
  ELSE IF Gt(Whole(items[i].ts), cutoff) THEN [acc EXCEPT !.iters = @ + 1]
  ELSE IF dowHourInTZThrows(tz) THEN [acc EXCEPT !.iters = @ + 1, !.threw = TRUE]
  ELSE LET l0 == dowHourInTZ(items[i].ts, tz, hc)
       IN  IF <<l0.dow, l0.hour>> \notin avail
           THEN scanLoop(items, i + 1, pref, avail, tz, cutoff, hc,
                         [acc EXCEPT !.iters = @ + 1])
           ELSE scanLoop(items, i + 1, pref, avail, tz, cutoff, hc,
                         [acc EXCEPT !.iters = @ + 1,
                                     !.pushed = Append(@, windowAt(items, i, pref, tz, hc))])

----------------------------------------------------------------------------
(* windows.sort((a, b) => (b.score - a.score) || (start(a) - start(b))) *)

\* the comparator; NaN and 0 are falsy, and a NaN result counts as 0
compareWindows(a, b) ==
  LET byScore == Sub(b.score, a.score)
      byStart == Whole(a.start - b.start)
      r       == IF IsNum(byScore) /\ byScore[2] # 0 THEN byScore ELSE byStart
  IN  IF IsNum(r) THEN r[2] ELSE 0

\* Array.prototype.sort on an array shorter than one merge run: the leading
\* run is counted (a strictly descending run is reversed), then every later
\* element is placed by binary insertion
RECURSIVE runEnd(_, _, _)
runEnd(a, idx, desc) ==
  IF idx > Len(a) THEN Len(a)
  ELSE LET order == compareWindows(a[idx], a[idx - 1])
       IN  IF (desc /\ order >= 0) \/ (~desc /\ order < 0) THEN idx - 1
           ELSE runEnd(a, idx + 1, desc)

reverseRun(a, n) == [j \in 1..Len(a) |-> IF j <= n THEN a[n + 1 - j] ELSE a[j]]

RECURSIVE insertionPoint(_, _, _, _)
insertionPoint(a, pivot, left, right) ==
  IF left >= right THEN left
  ELSE LET mid == left + ((right - left) \div 2)
       IN  IF compareWindows(pivot, a[mid]) < 0
           THEN insertionPoint(a, pivot, left, mid)
           ELSE insertionPoint(a, pivot, mid + 1, right)

RECURSIVE binaryInsertionSort(_, _)
binaryInsertionSort(a, start) ==
  IF start > Len(a) THEN a
  ELSE LET pivot == a[start]
           left  == insertionPoint(a, pivot, 1, start)
           moved == [j \in 1..Len(a) |->
                       IF j < left \/ j > start THEN a[j]
                       ELSE IF j = left THEN pivot
                       ELSE a[j - 1]]
       IN  binaryInsertionSort(moved, start + 1)

\* the sort on a list from which a window starting at the second hour of
\* another window of the same break was dropped as already covered
sortWindowsMerged(a) ==
  LET covered(w) == \E n \in 1..Len(a) :
                       /\ a[n].breakId = w.breakId
                       /\ Len(a[n].hourly) = 2
                       /\ a[n].hourly[2].ts = w.start
      kept == SelectSeq(a, LAMBDA w : ~covered(w))
  IN  IF Len(kept) < 2 THEN kept
      ELSE LET desc == compareWindows(kept[2], kept[1]) < 0
               run  == runEnd(kept, 3, desc)
               a1   == IF desc THEN reverseRun(kept, run) ELSE kept
           IN  binaryInsertionSort(a1, run + 1)

sortWindows(a) ==
  IF Len(a) < 2 THEN a
  ELSE LET desc == compareWindows(a[2], a[1]) < 0
           run  == runEnd(a, 3, desc)
           a1   == IF desc THEN reverseRun(a, run) ELSE a
       IN  binaryInsertionSort(a1, run + 1)

----------------------------------------------------------------------------
(* Inputs: the request, the clock and the replies of the called endpoints *)

\* longest forecast series a reply carries
MaxItems == 3

\* Date.now(), a Friday 23:00 UTC
Now == 143

\* instants of forecast hours: Sat 23:00, Sun 00:00, 01:00, 02:00 UTC around
\* DstEnd, and Sat 00:00 UTC of the week after
TsSet == {167, 168, 169, 170, 312}

\* the cached forecast of an instant (routes/forecast.js maps every field but
\* ts, windSpeedKt and tideM through unchanged, whatever its JSON type)
ForecastAt(ts) ==
  CASE ts = 167 -> [ts |-> ts, waveHeightM |-> Num(3, 2), swellPeriodS |-> Whole(10),
                    swellDir |-> Whole(315), windSpeedKt |-> Whole(5),
                    windDir |-> Whole(90), tideM |-> Num(1, 2)]
    [] ts = 168 -> [ts |-> ts, waveHeightM |-> Whole(5), swellPeriodS |-> Whole(20),
                    swellDir |-> Whole(135), windSpeedKt |-> Whole(30),
                    windDir |-> Whole(120), tideM |-> Whole(5)]
    [] ts = 169 -> [ts |-> ts, waveHeightM |-> Str, swellPeriodS |-> Whole(20),
                    swellDir |-> Whole(135), windSpeedKt |-> Whole(30),
                    windDir |-> Whole(270), tideM |-> Whole(5)]
    [] ts = 170 -> [ts |-> ts, waveHeightM |-> Whole(5), swellPeriodS |-> Whole(20),
                    swellDir |-> Whole(135), windSpeedKt |-> Whole(11),
                    windDir |-> Whole(270), tideM |-> Whole(5)]
    [] ts = 312 -> [ts |-> ts, waveHeightM |-> Whole(5), swellPeriodS |-> Null,
                    swellDir |-> Whole(135), windSpeedKt |-> Whole(30),
                    windDir |-> Whole(270), tideM |-> Num(43, 40)]

RECURSIVE SortedSeq(_)
SortedSeq(S) ==
  IF S = {} THEN <<>>
  ELSE LET m == CHOOSE x \in S : \A y \in S : x <= y
       IN  <<ForecastAt(m)>> \o SortedSeq(S \ {m})

\* forecast series, ascending in ts, possibly with missing hours
SeriesSet == {SortedSeq(S) : S \in {T \in SUBSET TsSet : Cardinality(T) <= MaxItems}}

\* rows of dbo.UserBreakPrefs joined with dbo.SurfBreaks
PrefStrict ==
  [BreakId |-> 1, MinHeightM |-> Whole(1), MaxHeightM |-> Whole(2),
   MinPeriodS |-> Whole(8), MaxPeriodS |-> Whole(12),
   AllowedSwellDirs |-> <<"NW">>, MaxWindKt |-> Whole(10),
   AllowedWindDirs |-> <<"E">>, MinTideM |-> Whole(0), MaxTideM |-> Whole(1)]

PrefLoose ==
  [BreakId |-> 2, MinHeightM |-> Null, MaxHeightM |-> Null,
   MinPeriodS |-> Null, MaxPeriodS |-> Null,
   AllowedSwellDirs |-> <<>>, MaxWindKt |-> Null,
   AllowedWindDirs |-> <<>>, MinTideM |-> Null, MaxTideM |-> Null]

PrefNoBreak == [PrefLoose EXCEPT !.BreakId = 0]

PrefLists ==
  {<<>>, <<PrefStrict>>, <<PrefLoose>>, <<PrefStrict, PrefLoose>>,
   <<PrefLoose, PrefStrict>>, <<PrefNoBreak, PrefStrict>>, <<PrefNoBreak>>}

\* rows of dbo.UserAvailability: Dow 0..6, StartHour 0..23
AvailRows(pairs) == {[Dow |-> p[1], StartHour |-> p[2]] : p \in pairs}

AvailSets ==
  {AvailRows({<<6, 23>>, <<0, 0>>, <<0, 1>>, <<0, 2>>, <<6, 0>>}),
   AvailRows({<<6, 23>>, <<0, 1>>, <<6, 0>>})}

\* req.query.days: absent, an integer literal, or text without a leading digit
DaysParams == {<<"absent", 0>>, <<"int", 0>>, <<"int", 2>>, <<"int", 9>>, <<"text", 0>>}

\* req.query.tz: "" is an absent parameter
TzParams == {"", "Europe/Lisbon", "Mars/Phobos"}

\* an HTTP exchange: the fetch rejects (net = FALSE), or a reply arrives with
\* a status and a body that is an array ("array"), another JSON value
\* ("other") or not JSON at all ("bad")
HttpReply(net, status, body, rows) ==
  [net |-> net, status |-> status, body |-> body, rows |-> rows]

Failures(empty) ==
  {HttpReply(FALSE, 0, "bad", empty), HttpReply(TRUE, 500, "other", empty),
   HttpReply(TRUE, 200, "bad", empty)}

PrefsReplies ==
  Failures(<<>>) \cup {HttpReply(TRUE, 204, "bad", <<>>), HttpReply(TRUE, 200, "other", <<>>)}
    \cup {HttpReply(TRUE, 200, "array", l) : l \in PrefLists}

AvailReplies ==
  Failures({}) \cup {HttpReply(TRUE, 204, "bad", {}), HttpReply(TRUE, 200, "other", {})}
    \cup {HttpReply(TRUE, 200, "array", a) : a \in AvailSets}

\* replies of /api/forecast/timeseries: 404, 503, 500, or 200 with a body whose
\* items member is an array ("array") or is not ("other")
ForecastReplies ==
  Failures(<<>>) \cup {HttpReply(TRUE, 503, "other", <<>>), HttpReply(TRUE, 404, "other", <<>>),
                       HttpReply(TRUE, 200, "other", <<>>)}
    \cup {HttpReply(TRUE, 200, "array", s) : s \in SeriesSet}

\* res.ok
resOk(r) == r.status >= 200 /\ r.status <= 299

\* selfGet calling res.json() on a 204 as on any other reply
selfGetParsing204(r) == ~r.net \/ ~resOk(r) \/ r.body = "bad"

\* selfGet without the test of the status
selfGetAnyStatus(r) == ~r.net \/ (r.status # 204 /\ r.body = "bad")

\* selfGet throws when the fetch rejects, on a status that is neither 2xx nor
\* 204, and when res.json() cannot parse the body
selfGetThrows(r) ==
  \/ ~r.net
  \/ (~resOk(r) /\ r.status # 204)
  \/ (r.status # 204 /\ r.body = "bad")

\* parseInt(req.query.days || "7", 10)
parseDays(p) ==
  CASE p[1] = "absent" -> Whole(7)
    [] p[1] = "int"    -> Whole(p[2])
    [] OTHER           -> NaN

----------------------------------------------------------------------------
(* GET /api/planner/sessions *)

VARIABLES
  pc,         \* position of the handler: idle, prefs, avail, forecast, done
  hourCycle,  \* hour cycle the runtime resolves "hour12: false" to
  query,      \* req.query
  days,       \* const days
  tz,         \* const tz
  prefsList,  \* const prefsList
  availSet,   \* const availSet, as (Dow, StartHour) pairs
  k,          \* index in prefsList of the pref whose forecast is awaited
  windows,    \* const windows, in push order
  fetched,    \* endpoints called so far
  replies,    \* status line and body kind of the prefs and availability replies
  scans,      \* per forecast fetch: the pref, the outcome and the scan made
  response,   \* what res.json / res.status(500).json sent
  fn,         \* scoring function under evaluation
  args,       \* its arguments
  result      \* its return value

handlerVars == <<pc, hourCycle, query, days, tz, prefsList, availSet, k, windows,
                 fetched, replies, scans, response>>

scoreVars == <<fn, args, result>>

vars == <<handlerVars, scoreVars>>

\* what a reply record keeps of an exchange
ReplyHead(r) == [net |-> r.net, status |-> r.status, body |-> r.body]

NoReply == [net |-> FALSE, status |-> -1, body |-> "none"]

NoResponse == [kind |-> "none", timezone |-> "", windows |-> <<>>]

\* res.json({ generatedAt, timezone: tz, windows })
OkResponse(zone, ws) == [kind |-> "ok", timezone |-> zone, windows |-> ws]

\* res.status(500).json({ message })
ErrorResponse == [kind |-> "error", timezone |-> "", windows |-> <<>>]

Init ==
  /\ pc = "idle"
  /\ hourCycle \in {"h23", "h24"}
  /\ query = [days |-> <<"absent", 0>>, tz |-> ""]
  /\ days = Whole(7)
  /\ tz = "UTC"
  /\ prefsList = <<>>
  /\ availSet = {}
  /\ k = 0
  /\ windows = <<>>
  /\ fetched = {}
  /\ replies = [prefs |-> NoReply, avail |-> NoReply]
  /\ scans = <<>>
  /\ response = NoResponse
  /\ fn = "none"
  /\ args = <<>>
  /\ result = Null

\* the handler up to its first await: parameters are read, prefs are requested
Request(q) ==
  /\ pc = "idle"
  /\ query' = q
  /\ days' = MathMax(Whole(1), MathMin(parseDays(q.days), Whole(7)))
  /\ tz' = IF q.tz = "" THEN "UTC" ELSE q.tz
  /\ fetched' = {"prefs"}
  /\ pc' = "prefs"
  /\ UNCHANGED <<hourCycle, prefsList, availSet, k, windows, replies, scans, response>>
  /\ UNCHANGED scoreVars

\* "if (!breakId) continue": the first index from j on whose pref has a break
RECURSIVE nextBreak(_, _)
nextBreak(list, j) ==
  IF j > Len(list) THEN j
  ELSE IF list[j].BreakId = 0 THEN nextBreak(list, j + 1)
  ELSE j

\* the location loop runs on from index j: up to the next forecast fetch, or
\* to the sort and the response behind the loop
RunLoop(list, j, ws) ==
  LET j2 == nextBreak(list, j)
  IN  IF j2 > Len(list)
      THEN /\ pc' = "done"
           /\ k' = j2
           /\ response' = OkResponse(tz, sortWindows(ws))
           /\ UNCHANGED fetched
      ELSE /\ pc' = "forecast"
           /\ k' = j2
           /\ fetched' = fetched \cup {"forecast"}
           /\ UNCHANGED response

\* catch (err): res.status(500)
Fail ==
  /\ pc' = "done"
  /\ response' = ErrorResponse

PrefsReply(r) ==
  /\ pc = "prefs"
  /\ replies' = [replies EXCEPT !.prefs = ReplyHead(r)]
  /\ IF selfGetThrows(r)
     THEN /\ Fail
          /\ UNCHANGED <<prefsList, fetched>>
     ELSE IF r.status = 204 \/ r.body # "array" \/ Len(r.rows) = 0
     THEN /\ pc' = "done"
          /\ response' = OkResponse(tz, <<>>)
          /\ UNCHANGED <<prefsList, fetched>>
     ELSE /\ prefsList' = r.rows
          /\ fetched' = fetched \cup {"avail"}
          /\ pc' = "avail"
          /\ UNCHANGED response
  /\ UNCHANGED <<hourCycle, query, days, tz, availSet, k, windows, scans>>
  /\ UNCHANGED scoreVars

\* availability.map(...) throws on a body that is not an array
AvailReply(r) ==
  /\ pc = "avail"
  /\ replies' = [replies EXCEPT !.avail = ReplyHead(r)]
  /\ IF selfGetThrows(r) \/ (r.status # 204 /\ r.body # "array")
     THEN /\ Fail
          /\ UNCHANGED <<availSet, k, fetched>>
     ELSE /\ availSet' = IF r.status = 204 THEN {}
                         ELSE {<<a.Dow, a.StartHour>> : a \in r.rows}
          /\ RunLoop(prefsList, 1, windows)
  /\ UNCHANGED <<hourCycle, query, days, tz, prefsList, windows, scans>>
  /\ UNCHANGED scoreVars

\* the record of a scan whose loop took each hour off the series as it went
ScanRecordShifting(pref, r, items, cutoff, res) ==
  [pref |-> pref, reply |-> ReplyHead(r), received |-> r.rows,
   items |-> SubSeq(items, res.iters + 1, Len(items)),
   cutoff |-> cutoff, iters |-> res.iters,
   pushed |-> res.pushed, threw |-> res.threw]

\* what is kept of the handling of one forecast reply: the pref, the reply,
\* the series as the reply carried it (received) and as the handler holds it
\* behind the scan (items), the cutoff and the outcome of the scan
ScanRecord(pref, r, items, cutoff, res) ==
  [pref |-> pref, reply |-> ReplyHead(r), received |-> r.rows,
   items |-> items, cutoff |-> cutoff, iters |-> res.iters,
   pushed |-> res.pushed, threw |-> res.threw]

NoScan == [iters |-> 0, pushed |-> <<>>, threw |-> FALSE]

\* the scan of a non-empty series and the rest of the handler behind it
Scanned(r, pref, items, cutoff, res) ==
  /\ scans' = Append(scans, ScanRecord(pref, r, items, cutoff, res))
  /\ windows' = windows \o res.pushed
  /\ IF res.threw
     THEN /\ Fail
          /\ UNCHANGED <<k, fetched>>
     ELSE RunLoop(prefsList, k + 1, windows \o res.pushed)

ForecastReply(r) ==
  LET pref   == prefsList[k]
      items  == IF r.body = "array" THEN r.rows ELSE <<>>
      cutoff == Add(Whole(Now), Mul(days, Whole(24)))
  IN  /\ pc = "forecast"
      /\ IF ~r.net \/ (resOk(r) /\ r.body = "bad")
         THEN /\ Fail
              /\ scans' = Append(scans, ScanRecord(pref, r, <<>>, NaN, NoScan))
              /\ UNCHANGED <<k, windows, fetched>>
         ELSE IF ~resOk(r) \/ Len(items) = 0
         THEN /\ scans' = Append(scans, ScanRecord(pref, r, <<>>, NaN, NoScan))
              /\ RunLoop(prefsList, k + 1, windows)
              /\ UNCHANGED windows
         ELSE \E res \in {scanLoop(items, 1, pref, availSet, tz, cutoff, hourCycle, NoScan)} :
                 Scanned(r, pref, items, cutoff, res)
      /\ UNCHANGED <<hourCycle, query, days, tz, prefsList, availSet, replies>>
      /\ UNCHANGED scoreVars

Next ==
  \/ \E q \in [days : DaysParams, tz : TzParams] : Request(q)
  \/ \E r \in PrefsReplies : PrefsReply(r)
  \/ \E r \in AvailReplies : AvailReply(r)
  \/ \E r \in ForecastReplies : ForecastReply(r)

Spec == Init /\ [][Next]_vars

----------------------------------------------------------------------------
(* Properties of the handler *)

\* the civil (dow, hour) of an instant in the request's zone
CivilPair(ts) == LET c == civilDowHour(ts, tz) IN <<c.dow, c.hour>>

\* q is the (dow, hour) that follows p on the local clock
IsLocalSuccessor(p, q) ==
  \/ (p[2] < 23 /\ q[1] = p[1] /\ q[2] = p[2] + 1)
  \/ (p[2] = 23 /\ q[1] = (p[1] + 1) % 7 /\ q[2] = 0)

Paired(w) == Len(w.hourly) = 2

Done == pc = "done"

\* the index in a scanned series of the hour a window starts at
StartIndex(s, w) == CHOOSE i \in 1..Len(s.items) : s.items[i].ts = w.start

\* C1: no window, pooled or returned, starts at an hour whose local
\* (dow, hour) in the request timezone is absent from the availability set,
\* whatever the hour scores
C1_AvailabilityGating ==
  /\ \A i \in 1..Len(windows) :
        tz \in KnownZones /\ CivilPair(windows[i].start) \in availSet
  /\ \A i \in 1..Len(response.windows) :
        tz \in KnownZones /\ CivilPair(response.windows[i].start) \in availSet

\* C1 witness: a response with windows, while an hour within the horizon
\* whose composite score is 1 was left out because the user is not available
C1_Witness ==
  /\ Done /\ response.kind = "ok" /\ Len(response.windows) > 0
  /\ \E j \in 1..Len(scans) : \E i \in 1..Len(scans[j].items) :
        LET it == scans[j].items[i]
        IN  /\ Le(Whole(it.ts), scans[j].cutoff)
            /\ CivilPair(it.ts) \notin availSet
            /\ hourlyScore(it, scans[j].pref, W).score = Whole(1)
            /\ \A n \in 1..Len(scans[j].pushed) : scans[j].pushed[n].start # it.ts

\* C2: a window is paired only if the local (dow, hour) of its second hour is
\* the local successor of that of its start hour; same day of week with the
\* hour wrapping from 23 to 0 is not a successor
C2_PairedOnlyWithSuccessor ==
  \A i \in 1..Len(windows) :
     Paired(windows[i]) =>
       IsLocalSuccessor(CivilPair(windows[i].start), CivilPair(windows[i].hourly[2].ts))

\* C3: a window whose start hour is followed in the series by an hour that is
\* not exactly one hour later is single-hour, and a start hour followed one
\* hour later by its local successor is paired
C3_GapNeverPaired ==
  \A j \in 1..Len(scans) : \A n \in 1..Len(scans[j].pushed) :
     LET s == scans[j]
         w == s.pushed[n]
         i == StartIndex(s, w)
     IN  i < Len(s.items) =>
           /\ s.items[i + 1].ts - s.items[i].ts # 1 => ~Paired(w)
           /\ (/\ s.items[i + 1].ts - s.items[i].ts = 1
               /\ IsLocalSuccessor(CivilPair(s.items[i].ts), CivilPair(s.items[i + 1].ts)))
              => Paired(w)

\* position of a returned window in the pooled list
PooledIndex(w) == CHOOSE n \in 1..Len(windows) : windows[n] = w

\* C4: in a successful response a window with a higher score precedes one
\* with a lower score, equal scores are in ascending start order, and windows
\* equal in score and start keep their pooled order
C4_Ranking ==
  response.kind = "ok" =>
    \A i \in 1..Len(response.windows) : \A j \in 1..Len(response.windows) :
       LET a == response.windows[i]
           b == response.windows[j]
       IN  i < j =>
             /\ ~Gt(b.score, a.score)
             /\ (IsNum(a.score) /\ a.score = b.score) => a.start <= b.start
             /\ (IsNum(a.score) /\ a.score = b.score /\ a.start = b.start)
                => PooledIndex(a) < PooledIndex(b)

\* a days parameter that is given and is not an integer in 1..7, or a tz
\* parameter that is given and is not a zone identifier
InvalidQuery(q) ==
  \/ q.days[1] = "text"
  \/ (q.days[1] = "int" /\ (q.days[2] < 1 \/ q.days[2] > 7))
  \/ (q.tz # "" /\ q.tz \notin KnownZones)

\* C5: a request with an invalid parameter is rejected before any retrieval
\* and never answers with a windows list
C5_InvalidParamsRejected ==
  (pc # "idle" /\ InvalidQuery(query)) => (fetched = {} /\ response.kind # "ok")

\* C6: a request whose tz is unknown or absent ends in an error, and no
\* windows response names a timezone that was not resolved from the request
C6_TimezoneFatal ==
  /\ (Done /\ query.tz \notin KnownZones) => response.kind = "error"
  /\ response.kind = "ok" => (response.timezone = query.tz /\ query.tz \in KnownZones)

\* the forecast retrieval recorded in s failed: the fetch was rejected, the
\* status is not a success, or the payload is not JSON
RetrievalFailed(s) == ~s.reply.net \/ ~resOk(s.reply) \/ s.reply.body = "bad"

\* C7: when the forecast retrieval of a location fails, the location
\* contributes no window and the request still ends in a success that holds
\* the windows of every other location
C7_PartialResults ==
  (Done /\ tz \in KnownZones) =>
    \A j \in 1..Len(scans) :
       RetrievalFailed(scans[j]) =>
         /\ scans[j].pushed = <<>>
         /\ response.kind = "ok"
         /\ \A j2 \in 1..Len(scans) : \A n \in 1..Len(scans[j2].pushed) :
               \E m \in 1..Len(response.windows) :
                  response.windows[m] = scans[j2].pushed[n]

\* the prefs endpoint answered 204 or an empty list
NoSavedPrefs ==
  /\ replies.prefs.net
  /\ \/ replies.prefs.status = 204
     \/ (replies.prefs.status = 200 /\ replies.prefs.body = "array" /\ prefsList = <<>>)

\* C9: with no saved preferences the request ends in a success carrying the
\* request's timezone and an empty windows list, and neither availability nor
\* any forecast is fetched
C9_NoPrefsEmptyWindows ==
  (pc # "prefs" /\ NoSavedPrefs) =>
    /\ Done
    /\ response = OkResponse(tz, <<>>)
    /\ fetched = {"prefs"}
    /\ scans = <<>>

\* C9 witness: the prefs endpoint answered 204 and the response was sent
C9_Witness == Done /\ replies.prefs.net /\ replies.prefs.status = 204 /\ response.kind = "ok"

----------------------------------------------------------------------------
(* The scoring functions on their own: hourlyScore applied to one forecast *)
(* hour and one preference row                                             *)

WaveInputs == {Null, Str, Num(9, 10), Num(3, 2), Whole(5)}

PeriodInputs == {Null, Str, Whole(10), Whole(13)}

SwellDirInputs == {Null, Str, Whole(-45), Whole(345), Whole(135)}

\* windSpeedKt reaches the handler as a number or null (forecast.js multiplies
\* it, and JSON turns a NaN product into null)
WindInputs == {Null, Whole(5), Whole(12), Whole(30)}

WindDirInputs == {Null, Str, Whole(90), Whole(270)}

TideInputs == {Null, Num(1, 2), Num(43, 40), Whole(-1)}

HourInputs ==
  [ts : {167}, waveHeightM : WaveInputs, swellPeriodS : PeriodInputs,
   swellDir : SwellDirInputs, windSpeedKt : WindInputs, windDir : WindDirInputs,
   tideM : TideInputs]

\* only lower bounds, a zero wind limit, a sector name outside the compass
PrefOnlyMin ==
  [BreakId |-> 3, MinHeightM |-> Whole(1), MaxHeightM |-> Null,
   MinPeriodS |-> Whole(12), MaxPeriodS |-> Null,
   AllowedSwellDirs |-> <<"XX">>, MaxWindKt |-> Whole(0),
   AllowedWindDirs |-> <<"", "S">>, MinTideM |-> Whole(0), MaxTideM |-> Null]

\* only upper bounds, one of them negative
PrefOnlyMax ==
  [BreakId |-> 4, MinHeightM |-> Null, MaxHeightM |-> Whole(1),
   MinPeriodS |-> Null, MaxPeriodS |-> Whole(12),
   AllowedSwellDirs |-> <<"N", "", "NW">>, MaxWindKt |-> Whole(20),
   AllowedWindDirs |-> <<"">>, MinTideM |-> Null, MaxTideM |-> Num(-1, 2)]

\* both bounds equal
PrefPoint ==
  [BreakId |-> 5, MinHeightM |-> Num(3, 2), MaxHeightM |-> Num(3, 2),
   MinPeriodS |-> Whole(10), MaxPeriodS |-> Whole(10),
   AllowedSwellDirs |-> <<"N">>, MaxWindKt |-> Whole(10),
   AllowedWindDirs |-> <<"W", "E">>, MinTideM |-> Num(1, 2), MaxTideM |-> Num(1, 2)]

PrefInputs == {PrefStrict, PrefLoose, PrefOnlyMin, PrefOnlyMax, PrefPoint}

\* a preference row with height bounds, one swell octant, a wind limit and
\* nothing else, and an hour without period and tide
ExamplePrefs ==
  [BreakId |-> 6, MinHeightM |-> Num(4, 5), MaxHeightM |-> Num(3, 2),
   MinPeriodS |-> Null, MaxPeriodS |-> Null,
   AllowedSwellDirs |-> <<"NW">>, MaxWindKt |-> Whole(15),
   AllowedWindDirs |-> <<>>, MinTideM |-> Null, MaxTideM |-> Null]

ExampleHour ==
  [ts |-> 167, waveHeightM |-> Whole(1), swellPeriodS |-> Null,
   swellDir |-> Whole(315), windSpeedKt |-> Whole(10), windDir |-> Whole(200),
   tideM |-> Null]

InitScore ==
  /\ pc = "call"
  /\ hourCycle = "h23"
  /\ query = [days |-> <<"absent", 0>>, tz |-> ""]
  /\ days = Whole(7)
  /\ tz = "UTC"
  /\ prefsList = <<>>
  /\ availSet = {}
  /\ k = 0
  /\ windows = <<>>
  /\ fetched = {}
  /\ replies = [prefs |-> NoReply, avail |-> NoReply]
  /\ scans = <<>>
  /\ response = NoResponse
  /\ fn = "hourlyScore"
  /\ args \in {<<h, p>> : h \in HourInputs, p \in PrefInputs}
               \cup {<<ExampleHour, ExamplePrefs>>}
  /\ result = [score |-> Null, subs |-> [height |-> Null, period |-> Null,
                 swellDir |-> Null, windSpeed |-> Null, windDir |-> Null, tide |-> Null]]

EvalHourlyScore ==
  /\ pc = "call"
  /\ fn = "hourlyScore"
  /\ result' = hourlyScore(args[1], args[2], W)
  /\ pc' = "return"
  /\ UNCHANGED <<hourCycle, query, days, tz, prefsList, availSet, k, windows,
                 fetched, replies, scans, response, fn, args>>

NextScore == EvalHourlyScore

SpecScore == InitScore /\ [][NextScore]_vars

Returned == pc = "return" /\ fn = "hourlyScore"

\* the field is a number or is missing
NumericOrMissing(x) == IsNum(x) \/ IsNullish(x)

\* the field is missing, or is a value that does not convert to a number
MissingOrMalformed(x) == IsNullish(x) \/ x = Str

In01(x) == IsNum(x) /\ x[2] >= 0 /\ x[2] <= x[3]

AllSubs(r) == {r.subs.height, r.subs.period, r.subs.swellDir,
               r.subs.windSpeed, r.subs.windDir, r.subs.tide}

\* C8: a missing or malformed field gets the neutral value of its sub-score,
\* 0.5 (for the tide 0.75 when no tide bound is set), and the composite of
\* the hour stays a number in [0,1]
C8_MalformedIsMissing ==
  Returned =>
    LET h == args[1]
        p == args[2]
        half == Num(1, 2)
    IN  /\ MissingOrMalformed(h.waveHeightM) => result.subs.height = half
        /\ MissingOrMalformed(h.swellPeriodS) => result.subs.period = half
        /\ MissingOrMalformed(h.swellDir) => result.subs.swellDir = half
        /\ MissingOrMalformed(h.windSpeedKt) => result.subs.windSpeed = half
        /\ MissingOrMalformed(h.windDir) => result.subs.windDir = half
        /\ MissingOrMalformed(h.tideM) =>
             result.subs.tide = IF ~TypeofNumber(p.MinTideM) /\ ~TypeofNumber(p.MaxTideM)
                                THEN Num(3, 4) ELSE half
        /\ In01(result.score)

\* 1.0*height + 0.8*period + 0.7*swellDir + 1.0*windDir + 1.0*windSpeed + 0.5*tide,
\* times 10
WeightedSum10(u) ==
  Add(Add(Add(Add(Add(Mul(Whole(10), u.height), Mul(Whole(8), u.period)),
                  Mul(Whole(7), u.swellDir)), Mul(Whole(10), u.windDir)),
          Mul(Whole(10), u.windSpeed)), Mul(Whole(5), u.tide))

\* C10: for an hour whose fields are numbers or missing, each of the six
\* sub-scores and the composite lie in [0,1], and the composite is the
\* weighted sum of the sub-scores cut off at 0 and at 1
C10_ScoresInUnitInterval ==
  (/\ Returned
   /\ \A x \in {args[1].waveHeightM, args[1].swellPeriodS, args[1].swellDir,
                args[1].windSpeedKt, args[1].windDir, args[1].tideM} :
         NumericOrMissing(x))
  => /\ \A x \in AllSubs(result) : In01(x)
     /\ In01(result.score)
     /\ LET s10 == WeightedSum10(result.subs)
        IN  result.score = IF Lt(s10, Whole(0)) THEN Whole(0)
                           ELSE IF Gt(s10, Whole(10)) THEN Whole(1)
                           ELSE Div(s10, Whole(10))

\* C10 witness: an hour with a missing field whose weighted sum exceeds 1 and
\* is clamped
C10_Witness ==
  /\ Returned
  /\ \A x \in {args[1].waveHeightM, args[1].swellPeriodS, args[1].swellDir,
               args[1].windSpeedKt, args[1].windDir, args[1].tideM} :
        NumericOrMissing(x)
  /\ IsNullish(args[1].swellPeriodS)
  /\ Gt(WeightedSum10(result.subs), Whole(10))
  /\ result.score = Whole(1)

\* an hour with numeric fields whose weighted sum stays below 1
C10_WitnessUnclamped ==
  /\ Returned
  /\ \A x \in {args[1].waveHeightM, args[1].swellPeriodS, args[1].swellDir,
               args[1].windSpeedKt, args[1].windDir, args[1].tideM} : IsNum(x)
  /\ Lt(WeightedSum10(result.subs), Whole(10))
  /\ Gt(result.score, Whole(0))

----------------------------------------------------------------------------
(* The sub-score functions on their own: dirScore, bandScore,              *)
(* windSpeedScore and tideScore applied to one set of arguments            *)

\* directions in degrees: every 7.5 from -45 to 90, every 45 from 135 to 495,
\* two odd quarters, a missing and a malformed one
DirDegInputs ==
  {Num(15 * j, 2) : j \in -6..12} \cup {Whole(45 * m) : m \in 3..11}
    \cup {Num(135, 4), Num(1305, 4), Null, Str}

\* AllowedSwellDirs / AllowedWindDirs after split, trim and upper-casing
AllowedInputs ==
  {<<>>, <<"">>, <<"N">>, <<"NE">>, <<"E">>, <<"SE">>, <<"S">>, <<"SW">>, <<"W">>,
   <<"NW">>, <<"NW", "N">>, <<"E", "", "W">>, <<"XX", "S">>, <<"XX">>}

DirScoreCalls == {<<d, a>> : d \in DirDegInputs, a \in AllowedInputs}

\* values in eighths from -3 to 3, and a missing one
BandVals == {Num(j, 8) : j \in -24..24} \cup {Null}

BandBounds == {Null, Whole(-2), Whole(-1), Whole(0), Whole(1), Whole(2)}

\* POST /prefs refuses a pair of bounds with min > max
BandScoreCalls ==
  {c \in BandVals \X BandBounds \X BandBounds :
     (IsNum(c[2]) /\ IsNum(c[3])) => Le(c[2], c[3])}

WindKtInputs ==
  {Null, Whole(0), Num(1, 2), Whole(1), Whole(5), Whole(10), Whole(12), Num(25, 2),
   Whole(14), Whole(15), Whole(16), Whole(20), Whole(25), Whole(30), Whole(31)}

\* MaxWindKt is an Int column, null when not set
MaxWindInputs == {Null, Whole(0), Whole(10), Whole(20)}

WindSpeedScoreCalls == WindKtInputs \X MaxWindInputs

TideVals == {Null, Whole(-1), Num(-1, 8), Num(1, 2), Num(43, 40), Whole(2)}

TideBounds == {Null, Whole(0), Whole(1)}

TideScoreCalls ==
  {c \in TideVals \X TideBounds \X TideBounds :
     (IsNum(c[2]) /\ IsNum(c[3])) => Le(c[2], c[3])}

InitSub ==
  /\ pc = "call"
  /\ hourCycle = "h23"
  /\ query = [days |-> <<"absent", 0>>, tz |-> ""]
  /\ days = Whole(7)
  /\ tz = "UTC"
  /\ prefsList = <<>>
  /\ availSet = {}
  /\ k = 0
  /\ windows = <<>>
  /\ fetched = {}
  /\ replies = [prefs |-> NoReply, avail |-> NoReply]
  /\ scans = <<>>
  /\ response = NoResponse
  /\ \/ (fn = "dirScore" /\ args \in DirScoreCalls)
     \/ (fn = "bandScore" /\ args \in BandScoreCalls)
     \/ (fn = "windSpeedScore" /\ args \in WindSpeedScoreCalls)
     \/ (fn = "tideScore" /\ args \in TideScoreCalls)
  /\ result = Null

\* the call of fn returns value
Return(value) ==
  /\ pc = "call"
  /\ result' = value
  /\ pc' = "return"
  /\ UNCHANGED <<hourCycle, query, days, tz, prefsList, availSet, k, windows,
                 fetched, replies, scans, response, fn, args>>

EvalDirScore == fn = "dirScore" /\ Return(dirScore(args[1], args[2]))

EvalBandScore == fn = "bandScore" /\ Return(bandScore(args[1], args[2], args[3]))

EvalWindSpeedScore == fn = "windSpeedScore" /\ Return(windSpeedScore(args[1], args[2]))

EvalTideScore == fn = "tideScore" /\ Return(tideScore(args[1], args[2], args[3]))

NextSub ==
  \/ EvalDirScore
  \/ EvalBandScore
  \/ EvalWindSpeedScore
  \/ EvalTideScore

SpecSub == InitSub /\ [][NextSub]_vars

ReturnedFrom(f) == pc = "return" /\ fn = f

\* no entry of the allowed list is left after blank ones are dropped
NoOctantAllowed(allowed) == \A n \in 1..Len(allowed) : allowed[n] = ""

\* C11: with an empty allowed set the direction sub-score is 1.0 whatever
\* the direction is, a missing (null) direction included
C11_EmptyAllowedIsOne ==
  (ReturnedFrom("dirScore") /\ NoOctantAllowed(args[2])) => result = Whole(1)

Octants == {"N", "NE", "E", "SE", "S", "SW", "W", "NW"}

\* the octants named in an allowed list
AllowedOctants(allowed) == {allowed[n] : n \in 1..Len(allowed)} \cap Octants

\* a direction in quarters of a degree
Quarters(x) == (4 * x[2]) \div x[3]

\* minimal circular distance, in quarters of a degree (0..720), from a
\* direction to the centre of an octant
CircularDistance(d, a) ==
  LET x     == Quarters(d) % 1440
      delta == Abs(x - Quarters(SECTOR_CENTERS(a)))
  IN  IF delta <= 1440 - delta THEN delta ELSE 1440 - delta

\* distance to the nearest allowed octant centre
NearestDistance(d, allowed) ==
  LET ds == {CircularDistance(d, a) : a \in AllowedOctants(allowed)}
  IN  CHOOSE m \in ds : \A x \in ds : m <= x

\* a present direction scored against a non-empty set of octants
DirectionCase(c) == IsNum(c[1]) /\ AllowedOctants(c[2]) # {}

\* C12: for a present direction and a non-empty octant set dirScore depends
\* only on the circular distance to the nearest allowed centre: 1.0 up to
\* 22.5 degrees, strictly between 0 and 1 and non-increasing between 22.5 and
\* 45, and 0 beyond 45; so 1.0 at a centre and 0 opposite to it
C12_DirectionByDistance ==
  (ReturnedFrom("dirScore") /\ DirectionCase(args)) =>
    LET dist == NearestDistance(args[1], args[2])
    IN  /\ dist <= 90 => result = Whole(1)
        /\ (dist > 90 /\ dist < 180) => (Gt(result, Whole(0)) /\ Lt(result, Whole(1)))
        /\ dist > 180 => result = Whole(0)
        /\ \A c \in DirScoreCalls :
              DirectionCase(c) =>
                LET dist2 == NearestDistance(c[1], c[2])
                IN  /\ dist2 = dist => dirScore(c[1], c[2]) = result
                    /\ dist2 >= dist => Le(dirScore(c[1], c[2]), result)
        /\ \A a \in Octants :
              /\ dirScore(SECTOR_CENTERS(a), <<a>>) = Whole(1)
              /\ dirScore(Add(SECTOR_CENTERS(a), Whole(180)), <<a>>) = Whole(0)

\* C12 witness: a negative direction, 37.5 degrees from the nearest allowed
\* centre across north, scored 0.25
C12_Witness ==
  /\ ReturnedFrom("dirScore") /\ DirectionCase(args)
  /\ Lt(args[1], Whole(0))
  /\ NearestDistance(args[1], args[2]) = 150
  /\ result = Num(1, 4)

BothBounds(c) == IsNum(c[1]) /\ IsNum(c[2]) /\ IsNum(c[3])

\* C13: a numeric value with min <= value <= max scores 1.0, min = max
\* included
C13_InBandIsOne ==
  (/\ ReturnedFrom("bandScore") /\ BothBounds(args)
   /\ Le(args[2], args[1]) /\ Le(args[1], args[3]))
  => result = Whole(1)

\* C13 witness: a value equal to both bounds, and scored
C13_Witness ==
  /\ ReturnedFrom("bandScore") /\ BothBounds(args)
  /\ args[1] = args[2] /\ args[1] = args[3]
  /\ result = Whole(1)

\* how far a value lies outside [min, max]; 0 inside
Outside(v, min, max) ==
  IF Lt(v, min) THEN Sub(min, v) ELSE IF Gt(v, max) THEN Sub(v, max) ELSE Whole(0)

\* the value as far from the middle of the band on its other side
Mirror(v, min, max) == Sub(Add(min, max), v)

\* C14: with both bounds and min < max, a value x outside the band scores
\* 1 - x / (0.25 * (max - min)) while 0 < x < 0.25 * (max - min), strictly
\* between 0 and 1 and strictly decreasing in x, and exactly 0 from
\* x = 0.25 * (max - min) on, alike below min and above max
C14_LinearFalloff ==
  (/\ ReturnedFrom("bandScore") /\ BothBounds(args) /\ Lt(args[2], args[3])
   /\ Gt(Outside(args[1], args[2], args[3]), Whole(0)))
  => LET v   == args[1]
         min == args[2]
         max == args[3]
         x   == Outside(v, min, max)
         pad == Mul(Num(1, 4), Sub(max, min))
     IN  /\ Lt(x, pad) =>
               /\ result = Sub(Whole(1), Div(x, pad))
               /\ Gt(result, Whole(0)) /\ Lt(result, Whole(1))
         /\ Ge(x, pad) => result = Whole(0)
         /\ \A v2 \in BandVals :
               (IsNum(v2) /\ Lt(x, Outside(v2, min, max)) /\ Lt(x, pad))
                 => Lt(bandScore(v2, min, max), result)
         /\ bandScore(Mirror(v, min, max), min, max) = result

\* C14 witness: a value an eighth below a band of width 1, scored 0.5
C14_Witness ==
  /\ ReturnedFrom("bandScore") /\ BothBounds(args) /\ Lt(args[2], args[3])
  /\ Lt(args[1], args[2])
  /\ Outside(args[1], args[2], args[3]) = Num(1, 8)
  /\ result = Num(1, 2)

\* C15: with only min, every value at or above min scores 1.0, every value
\* below min scores below 1.0, and the score never decreases as the value
\* grows; with only max the mirror image; for every numeric bound, zero and
\* negative ones included
C15_SingleBoundRamp ==
  (ReturnedFrom("bandScore") /\ IsNum(args[1])) =>
    LET v   == args[1]
        min == args[2]
        max == args[3]
    IN  /\ (IsNum(min) /\ IsNullish(max)) =>
              /\ Ge(v, min) => result = Whole(1)
              /\ Lt(v, min) => (Ge(result, Whole(0)) /\ Lt(result, Whole(1)))
              /\ \A v2 \in BandVals :
                    (IsNum(v2) /\ Le(v2, v)) => Le(bandScore(v2, min, max), result)
        /\ (IsNullish(min) /\ IsNum(max)) =>
              /\ Le(v, max) => result = Whole(1)
              /\ Gt(v, max) => (Ge(result, Whole(0)) /\ Lt(result, Whole(1)))
              /\ \A v2 \in BandVals :
                    (IsNum(v2) /\ Ge(v2, v)) => Le(bandScore(v2, min, max), result)

\* C16: a missing speed scores 0.5; without a numeric maxKt the score is
\* 1.0; kt <= maxKt scores 1.0; above maxKt the score falls linearly and is
\* 0 for every kt >= 1.5 * maxKt, for every maxKt >= 0, maxKt = 0 included
C16_WindSpeedFalloff ==
  ReturnedFrom("windSpeedScore") =>
    LET kt    == args[1]
        maxKt == args[2]
        limit == Mul(Num(3, 2), maxKt)
    IN  /\ IsNullish(kt) => result = Num(1, 2)
        /\ (IsNum(kt) /\ ~IsNum(maxKt)) => result = Whole(1)
        /\ (IsNum(kt) /\ IsNum(maxKt)) =>
              /\ Le(kt, maxKt) => result = Whole(1)
              /\ (Gt(kt, maxKt) /\ Lt(kt, limit)) =>
                    result = Sub(Whole(1), Div(Sub(kt, maxKt), Sub(limit, maxKt)))
              /\ (Gt(kt, maxKt) /\ Ge(kt, limit)) => result = Whole(0)

NoTideBound(c) == ~TypeofNumber(c[2]) /\ ~TypeofNumber(c[3])

\* C17: tideScore is 0.75 when neither tide bound is set, for every tide
\* value and for a missing one, and is bandScore(tide, minTide, maxTide) as
\* soon as one bound is set
C17_TideOptional ==
  ReturnedFrom("tideScore") =>
    /\ NoTideBound(args) => result = Num(3, 4)
    /\ ~NoTideBound(args) => result = bandScore(args[1], args[2], args[3])
    /\ (~NoTideBound(args) /\ IsNullish(args[1])) => result = Num(1, 2)

\* C17 witness: a missing tide and no tide bound, scored 0.75
C17_Witness ==
  /\ ReturnedFrom("tideScore")
  /\ NoTideBound(args) /\ IsNullish(args[1])
  /\ result = Num(3, 4)

\* a tide outside a band set by both bounds, scored as bandScore does
C17_WitnessBand ==
  /\ ReturnedFrom("tideScore")
  /\ BothBounds(args) /\ Gt(args[1], args[3])
  /\ result = Num(7, 10)

----------------------------------------------------------------------------
(* Window score, best hour and horizon of GET /sessions *)

\* composite score of the hour at index i of a scanned series
Composite(s, i) == hourlyScore(s.items[i], s.pref, W).score

\* mean of the composites of the one or two hours of the window starting at
\* index i
MeanComposite(s, w, i) ==
  IF Paired(w) THEN Div(Add(Composite(s, i), Composite(s, i + 1)), Whole(2))
  ELSE Composite(s, i)

\* r is an integer nearest to 100 * m
IsRoundedPercent(r, m) ==
  /\ IsNum(r) /\ r[3] = 1
  /\ IsNum(m) /\ 2 * Abs(100 * m[2] - r[2] * m[3]) <= m[3]

\* C18: the score of every emitted window is the mean of the composite of
\* its start hour and, when paired, of its second hour, times 100 and
\* rounded; it is an integer in 0..100, and for a single-hour window the
\* rounded composite of the start hour
C18_WindowScoreIsMean ==
  \A j \in 1..Len(scans) : \A n \in 1..Len(scans[j].pushed) :
     LET s == scans[j]
         w == s.pushed[n]
         i == StartIndex(s, w)
     IN  /\ IsRoundedPercent(w.score, MeanComposite(s, w, i))
         /\ w.score[2] \in 0..100
         /\ ~Paired(w) => IsRoundedPercent(w.score, Composite(s, i))

\* C19: bestHour is the second hour only when the window is paired and the
\* composite of the second hour is strictly higher than that of the start
\* hour; on a tie and for a single-hour window it is the start hour
C19_BestHourStrictlyHigher ==
  \A j \in 1..Len(scans) : \A n \in 1..Len(scans[j].pushed) :
     LET s == scans[j]
         w == s.pushed[n]
         i == StartIndex(s, w)
     IN  w.bestHour = IF Paired(w) /\ Gt(Composite(s, i + 1), Composite(s, i))
                      THEN s.items[i + 1].ts
                      ELSE w.start

\* the first index of a scanned series whose timestamp exceeds the cutoff,
\* or the length plus one when there is none
StopIndex(s) ==
  LET over == {i \in 1..Len(s.items) : Gt(Whole(s.items[i].ts), s.cutoff)}
  IN  IF over = {} THEN Len(s.items) + 1
      ELSE CHOOSE i \in over : \A i2 \in over : i <= i2

\* C20: the scan of a location stops at the first index whose timestamp
\* exceeds the cutoff; no window starts beyond the cutoff or at an index at
\* or after the stopping index, and every available hour at an index before
\* the stopping index starts a window
C20_Horizon ==
  \A j \in 1..Len(scans) :
     LET s    == scans[j]
         stop == StopIndex(s)
     IN  (s.items # <<>> /\ ~s.threw) =>
           /\ s.iters = IF stop <= Len(s.items) THEN stop ELSE Len(s.items)
           /\ \A n \in 1..Len(s.pushed) :
                 /\ ~Gt(Whole(s.pushed[n].start), s.cutoff)
                 /\ StartIndex(s, s.pushed[n]) < stop
           /\ \A i \in 1..(stop - 1) :
                 CivilPair(s.items[i].ts) \in availSet =>
                   \E n \in 1..Len(s.pushed) : s.pushed[n].start = s.items[i].ts

----------------------------------------------------------------------------
(* Emission and pooling of windows *)

\* indices before the stopping index whose local (dow, hour) is available
AvailableBefore(s) ==
  {i \in 1..(StopIndex(s) - 1) : CivilPair(s.items[i].ts) \in availSet}

\* windows of a scan that start at the hour of index i
StartingAt(s, i) == {n \in 1..Len(s.pushed) : s.pushed[n].start = s.items[i].ts}

\* C21: the scan emits exactly one window per available hour before the
\* stopping index and none for any other index; an hour that is the second
\* hour of a paired window starts a window of its own when it is available;
\* so the number of windows of a location is the number of available hours
\* before the stopping index
C21_OneWindowPerStart ==
  \A j \in 1..Len(scans) :
     LET s == scans[j]
     IN  (s.items # <<>> /\ ~s.threw) =>
           /\ s.iters <= Len(s.items)
           /\ \A i \in 1..Len(s.items) :
                 Cardinality(StartingAt(s, i)) = IF i \in AvailableBefore(s) THEN 1 ELSE 0
           /\ \A n \in 1..Len(s.pushed) :
                 LET i == StartIndex(s, s.pushed[n])
                 IN  (Paired(s.pushed[n]) /\ i + 1 \in AvailableBefore(s))
                       => StartingAt(s, i + 1) # {}
           /\ Len(s.pushed) = Cardinality(AvailableBefore(s))

\* how many times w occurs in a list of windows
Occurrences(ws, w) == Cardinality({n \in 1..Len(ws) : ws[n] = w})

RECURSIVE EmittedCount(_)
EmittedCount(j) == IF j = 0 THEN 0 ELSE Len(scans[j].pushed) + EmittedCount(j - 1)

\* the response was sent behind the location loop
RankedResponse == Done /\ response.kind = "ok" /\ prefsList # <<>>

\* C22: the windows of a success response are a permutation of the windows
\* emitted for all locations: as many as the per-location counts add up to,
\* each as often as it was emitted, overlapping ones included
C22_NoDedupNoMerge ==
  RankedResponse =>
    /\ Len(response.windows) = EmittedCount(Len(scans))
    /\ \A j \in 1..Len(scans) : \A n \in 1..Len(scans[j].pushed) :
          LET w == scans[j].pushed[n]
          IN  Occurrences(response.windows, w) = Occurrences(windows, w)
    /\ \A m \in 1..Len(response.windows) :
          \E j \in 1..Len(scans) : \E n \in 1..Len(scans[j].pushed) :
             scans[j].pushed[n] = response.windows[m]

\* C22 witness: a response holding a paired window and the window of the
\* same break that starts at its second hour
C22_Witness ==
  /\ RankedResponse
  /\ \E m1 \in 1..Len(response.windows) : \E m2 \in 1..Len(response.windows) :
        /\ response.windows[m1].breakId = response.windows[m2].breakId
        /\ Paired(response.windows[m1])
        /\ response.windows[m1].end = response.windows[m2].start

----------------------------------------------------------------------------
(* The worked example of hourlyScore *)

ExampleSubs ==
  [height |-> Whole(1), period |-> Num(1, 2), swellDir |-> Whole(1),
   windSpeed |-> Whole(1), windDir |-> Whole(1), tide |-> Num(3, 4)]

ExampleReturned == Returned /\ args = <<ExampleHour, ExamplePrefs>>

\* C23 as stated: for height bounds 0.8..1.5, swell NW, wind limit 15 and an
\* hour of wave 1.0, swell 315, wind 10 kt from 200, period and tide
\* missing, hourlyScore yields height 1.0, swellDir 1.0, windSpeed 1.0,
\* windDir 1.0, period 0.5, tide 0.75, a weighted sum of 3.475 and the
\* composite 1.0
C23_ExampleAsStated ==
  ExampleReturned =>
    /\ result.subs = ExampleSubs
    /\ hourlyScoreSum(result.subs, W) = Num(139, 40)
    /\ result.score = Whole(1)

\* C23 amended: the same sub-scores and composite, the weighted sum being
\* 1.0 + 0.4 + 0.7 + 1.0 + 1.0 + 0.375 = 4.475
C23_Example ==
  ExampleReturned =>
    /\ result.subs = ExampleSubs
    /\ hourlyScoreSum(result.subs, W) = Num(179, 40)
    /\ result.score = Whole(1)

\* C23 witness: the example was scored
C23_Witness == ExampleReturned /\ result.score = Whole(1) /\ result.subs.tide = Num(3, 4)

----------------------------------------------------------------------------
(* Inputs of a request *)

\* the handler holds the preference rows, and the availability set
PrefsHeld == pc \in {"avail", "forecast", "done"} /\ prefsList # <<>>

AvailHeld == pc = "forecast" \/ (pc = "done" /\ scans # <<>>)

\* C24: a request, successful or failed, leaves its inputs as they were
\* received: the preference rows and the availability set never change once
\* the handler holds them, every forecast series is behind its scan what the
\* reply carried and stays so, and each scan used a row of the preference
\* list; only the windows list is written
C24_InputsUnchanged ==
  [][/\ PrefsHeld => prefsList' = prefsList
     /\ AvailHeld => availSet' = availSet
     /\ \A j \in 1..Len(scans) :
           /\ Len(scans') >= j
           /\ scans'[j].items = scans[j].items
           /\ scans'[j].received = scans[j].received
           /\ scans'[j].pref = scans[j].pref
     /\ \A j \in 1..Len(scans') :
           /\ scans'[j].items = scans'[j].received
           /\ \E n \in 1..Len(prefsList') : prefsList'[n] = scans'[j].pref]_vars

\* C24 witness: a request that scanned two locations, pooled windows and sent
\* them in another order than they were pushed
C24_Witness ==
  /\ RankedResponse
  /\ Len(scans) = 2
  /\ scans[1].pushed # <<>> /\ scans[1].items = scans[1].received
  /\ response.windows # windows

\* a failed request that had scanned a location before
C24_WitnessFailed ==
  /\ Done /\ response.kind = "error"
  /\ Len(scans) = 2
  /\ scans[1].pushed # <<>> /\ scans[1].items = scans[1].received

----------------------------------------------------------------------------
(* Independence of the per-location runs *)

\* the windows of the scans j, j - 1, ..., 1 pooled in that order
RECURSIVE PooledBackwards(_)
PooledBackwards(j) ==
  IF j = 0 THEN <<>> ELSE scans[j].pushed \o PooledBackwards(j - 1)

\* the windows a scan of its own, given only the shared availability set,
\* timezone and cutoff, emits for the series and the pref of scan j
RunAlone(j) ==
  scanLoop(scans[j].items, 1, scans[j].pref, availSet, tz, scans[j].cutoff,
           hourCycle, NoScan).pushed

\* C25: the windows of a location are those a run on its own pref and series
\* emits, and ranking the locations' windows pooled in the opposite order
\* gives the same windows, in the same sequence up to the order of windows
\* equal in score and start
C25_LocationsIndependent ==
  RankedResponse =>
    LET other == sortWindows(PooledBackwards(Len(scans)))
    IN  /\ \A j \in 1..Len(scans) : scans[j].items # <<>> => scans[j].pushed = RunAlone(j)
        /\ Len(other) = Len(response.windows)
        /\ \A m \in 1..Len(other) :
              /\ Occurrences(other, other[m]) = Occurrences(response.windows, other[m])
              /\ other[m].score = response.windows[m].score
              /\ other[m].start = response.windows[m].start

----------------------------------------------------------------------------
(* Shape of the emitted windows *)

HourlyInstants(w) == {w.hourly[n].ts : n \in 1..Len(w.hourly)}

\* C26: every emitted window has one or two hourly entries, the first being
\* the start hour and the second, if any, the hour after it in the series;
\* end is start for a single-hour window and the second hour's instant
\* otherwise, so that end - start is 0 or exactly one hour; bestHour is one
\* of the hourly instants; why holds the sub-scores of the start hour
C26_WindowShape ==
  \A j \in 1..Len(scans) : \A n \in 1..Len(scans[j].pushed) :
     LET s == scans[j]
         w == s.pushed[n]
         i == StartIndex(s, w)
     IN  /\ Len(w.hourly) \in {1, 2}
         /\ w.hourly[1].ts = w.start
         /\ Len(w.hourly) = 1 => w.end = w.start
         /\ Len(w.hourly) = 2 =>
               (i < Len(s.items) /\ w.hourly[2].ts = s.items[i + 1].ts /\ w.end = w.hourly[2].ts)
         /\ w.start <= w.end
         /\ w.end - w.start \in {0, 1}
         /\ w.bestHour \in HourlyInstants(w)
         /\ w.why = hourlyScore(s.items[i], s.pref, W).subs

\* C27 as stated: every hour of an emitted window, the start hour and the
\* paired hour alike, and bestHour with them, has a local (dow, hour) that
\* is in the availability set
C27_EveryHourAvailable ==
  \A j \in 1..Len(scans) : \A n \in 1..Len(scans[j].pushed) :
     LET w == scans[j].pushed[n]
     IN  /\ \A t \in HourlyInstants(w) : CivilPair(t) \in availSet
         /\ CivilPair(w.bestHour) \in availSet

\* C27 amended: the start hour of every emitted window has a local
\* (dow, hour) that is in the availability set; the only other hour a
\* window contains is the hour behind the start hour in the series, the
\* second hour of the two-hour slot, which is not looked up in the set; and
\* bestHour is one of the two
C27_StartHourAvailable ==
  \A j \in 1..Len(scans) : \A n \in 1..Len(scans[j].pushed) :
     LET s == scans[j]
         w == s.pushed[n]
         i == StartIndex(s, w)
     IN  /\ tz \in KnownZones
         /\ CivilPair(s.items[i].ts) \in availSet
         /\ \A t \in HourlyInstants(w) \cup {w.bestHour, w.end} :
               \/ t = s.items[i].ts
               \/ (i < Len(s.items) /\ t = s.items[i + 1].ts)

\* C27 witness: a paired window whose second hour is not in the
\* availability set and is its best hour
C27_Witness ==
  \E j \in 1..Len(scans) : \E n \in 1..Len(scans[j].pushed) :
     LET w == scans[j].pushed[n]
     IN  /\ Paired(w)
         /\ IsLocalSuccessor(CivilPair(w.start), CivilPair(w.end))
         /\ CivilPair(w.end) \notin availSet
         /\ w.bestHour = w.end

\* C28: every hour of an emitted window, the paired hour and the end instant
\* included, has a timestamp that does not exceed the cutoff
C28_AllHoursWithinCutoff ==
  \A j \in 1..Len(scans) : \A n \in 1..Len(scans[j].pushed) :
     LET s == scans[j]
         w == s.pushed[n]
     IN  \A t \in HourlyInstants(w) \cup {w.start, w.end, w.bestHour} :
            ~Gt(Whole(t), s.cutoff)

\* the longest horizon, 7 days, in hours
LongestHorizon == 7 * 24

\* C29: whatever the days parameter is, the horizon in effect is between 1
\* and 7 days, and no window, pooled or returned, starts more than 7 days
\* after the request time
C29_HorizonAtMostSevenDays ==
  /\ \A j \in 1..Len(scans) :
        scans[j].items # <<>> =>
          /\ Ge(scans[j].cutoff, Whole(Now + 24))
          /\ Le(scans[j].cutoff, Whole(Now + LongestHorizon))
  /\ \A m \in 1..Len(windows) : windows[m].start <= Now + LongestHorizon
  /\ \A m \in 1..Len(response.windows) :
        response.windows[m].start <= Now + LongestHorizon

----------------------------------------------------------------------------
(* Termination of a request *)

\* an awaited exchange ends, with a reply or a rejection, and its
\* continuation then runs
Replies ==
  \/ \E r \in PrefsReplies : PrefsReply(r)
  \/ \E r \in AvailReplies : AvailReply(r)
  \/ \E r \in ForecastReplies : ForecastReply(r)

\* requests of each kind: both parameters absent (seven days, UTC), a number
\* of days with a known zone (the scan can stop at the cutoff), text for days
\* with a zone Intl rejects (no cutoff, the scan throws)
LiveQueries ==
  {[days |-> <<"absent", 0>>, tz |-> ""],
   [days |-> <<"int", 2>>, tz |-> "Europe/Lisbon"],
   [days |-> <<"text", 0>>, tz |-> "Mars/Phobos"]}

NextLive ==
  \/ \E q \in LiveQueries : Request(q)
  \/ Replies

\* every awaited HTTP exchange ends, in a reply or in a rejection, and the
\* continuation of the handler behind the await is then run
SpecLive == Init /\ [][NextLive]_vars /\ WF_vars(Replies)

\* a selfGet exchange that ended in a rejection or in a status that is
\* neither a success nor 204
SelfGetFailed(h) == h # NoReply /\ (~h.net \/ (~resOk(h) /\ h.status # 204))

OneOutcome ==
  /\ (response # NoResponse) <=> Done
  /\ Done =>
       \/ (response.kind = "error" /\ response.windows = <<>>)
       \/ /\ response.kind = "ok"
          /\ Len(response.windows) = Len(windows)
          /\ \A m \in 1..Len(windows) :
                Occurrences(response.windows, windows[m]) = Occurrences(windows, windows[m])
  /\ \A j \in 1..Len(scans) : scans[j].iters <= Len(scans[j].items)
  /\ (SelfGetFailed(replies.prefs) \/ SelfGetFailed(replies.avail)) =>
       /\ Done /\ response.kind = "error"
       /\ scans = <<>> /\ windows = <<>> /\ "forecast" \notin fetched

====
